---------------------------- MODULE Spec2Model ----------------------------
(***************************************************************************)
(* A model of parse_salaries_pdf.py: the text normalizer, the block        *)
(* splitter and the field extractor (parse_salaries_data,                  *)
(* parse_employee_block), the table builder (make_pd_dataframe) and the    *)
(* entry point (main).                                                     *)
(*                                                                         *)
(* Python strings are modelled as sequences of one-character strings, so   *)
(* that searching, splitting and trimming are computed as the code         *)
(* computes them.  None, NaN and NaT are the value NULL.                   *)
(***************************************************************************)
EXTENDS Integers, Sequences, FiniteSets, TLC

VARIABLES
    pc,                  \* position in the function the specification runs
    salaries_txt,        \* parse_salaries_data: the raw text
    clean_salaries_txt,  \* parse_salaries_data: the normalized text
    employee_blocks,     \* parse_salaries_data: the blocks of re.split
    block,               \* parse_employee_block: its argument
    employee_data,       \* parse_employee_block: the mapping it returns
    faculty_data,        \* the list of records (parse_salaries_data's result,
                         \* make_pd_dataframe's argument)
    gender_df,           \* make_pd_dataframe: the gender table, or NULL
    dept_class_map,      \* make_pd_dataframe: the department map, or NULL
    faculty_df,          \* make_pd_dataframe: the table it returns
    args,                \* main: the command line
    files,               \* main: the files the run has written
    io_log,              \* main: the file operations performed, in order
    error                \* the exception that ended the run, "" for none

vars == <<pc, salaries_txt, clean_salaries_txt, employee_blocks, block,
          employee_data, faculty_data, gender_df, dept_class_map, faculty_df,
          args, files, io_log, error>>

\* None: a sequence of one element that is no character, so that it compares
\* with every string and equals none
NULL == <<"<None>">>

-----------------------------------------------------------------------------
(* Bounds of the model.                                                    *)

MaxPieces == 4        \* pieces a raw text is assembled from
MaxBlockPieces == 4   \* pieces a block is assembled from
MaxRecords == 2       \* records of a list given to make_pd_dataframe alone
MaxEnrichRecords == 2 \* records of a list given to it with the lookups
MaxGenderRows == 2    \* rows of the gender table

-----------------------------------------------------------------------------
(* Strings.                                                                *)

\* str.strip() and the regex class \s: the whitespace characters (of
\* those, the ones a TLA+ string can hold)
Whitespace == {" ", "\t", "\n", "\r", "\f"}

IsSpace(c) == c \in Whitespace

\* str.splitlines(): the line boundaries (of those, the ones a TLA+ string
\* can hold; "\r\n" is one boundary)
LineBreaks == {"\n", "\r", "\f"}

Min(S) == CHOOSE x \in S : \A y \in S : x <= y
Max(S) == CHOOSE x \in S : \A y \in S : x >= y

\* str.strip()
Strip(s) ==
    LET keep == {i \in 1..Len(s) : ~IsSpace(s[i])}
    IN  IF keep = {} THEN <<>> ELSE SubSeq(s, Min(keep), Max(keep))

\* sub occurs in s at index i
OccursAt(s, sub, i) ==
    /\ i >= 1
    /\ i + Len(sub) - 1 <= Len(s)
    /\ \A k \in 1..Len(sub) : s[i + k - 1] = sub[k]

\* `sub in s`
Contains(s, sub) == \E i \in 1..(Len(s) - Len(sub) + 1) : OccursAt(s, sub, i)

RECURSIVE SplitLinesFrom(_, _, _)
\* the lines of s from index start on, appended to acc
SplitLinesFrom(s, start, acc) ==
    LET breaks == {j \in start..Len(s) : s[j] \in LineBreaks}
        b == Min(breaks)
    IN  IF breaks = {}
        THEN IF start <= Len(s) THEN Append(acc, SubSeq(s, start, Len(s)))
             ELSE acc
        ELSE IF s[b] = "\r" /\ b < Len(s) /\ s[b + 1] = "\n"
        THEN SplitLinesFrom(s, b + 2, Append(acc, SubSeq(s, start, b - 1)))
        ELSE SplitLinesFrom(s, b + 1, Append(acc, SubSeq(s, start, b - 1)))

\* str.splitlines(): no empty last line after a final line break
SplitLines(s) == SplitLinesFrom(s, 1, <<>>)

RECURSIVE Join(_, _)
\* sep.join(parts)
Join(parts, sep) ==
    IF parts = <<>> THEN <<>>
    ELSE IF Len(parts) = 1 THEN parts[1]
    ELSE parts[1] \o sep \o Join(Tail(parts), sep)

RECURSIVE Flatten(_)
Flatten(parts) ==
    IF parts = <<>> THEN <<>> ELSE parts[1] \o Flatten(Tail(parts))

-----------------------------------------------------------------------------
(* parse_salaries_data, lines 38-47: Text Normalizer and Block Splitter.   *)

Marker == <<"U", "n", "c", "l", "a", "s", "s", "i", "f", "i", "e", "d", " ",
            "P", "e", "r", "s", "o", "n", "n", "e", "l", " ", "L", "i", "s", "t">>

\* the filter of the list comprehension: a mutant that compares the whole line
KeepLineWholeLine(line) == Strip(line) # <<>> /\ line # Marker

\* `if line.strip() and "Unclassified Personnel List" not in line`
KeepLine(line) == Strip(line) # <<>> /\ ~Contains(line, Marker)

\* "\n".join([line for line in salaries_txt.splitlines() if ...])
CleanText(txt) == Join(SelectSeq(SplitLines(txt), KeepLine), <<"\n">>)

\* the least number of dashes of a separator: the 80 of r"-{80,}"
SeparatorMin == 80

\* s has n dashes from index i on
DashesAt(s, i, n) == \A k \in 0..(n - 1) : i + k <= Len(s) /\ s[i + k] = "-"

\* length of the run of dashes of s that starts at index i (0 if none)
DashRun(s, i) ==
    LET stop == {j \in i..Len(s) : s[j] # "-"}
    IN  IF stop = {} THEN Len(s) - i + 1 ELSE Min(stop) - i

\* a mutant of the quantifier: {80} takes exactly eighty dashes
SeparatorMatchFixed(s, i) ==
    IF DashesAt(s, i, SeparatorMin) THEN SeparatorMin ELSE 0

\* the length -{80,} matches at index i: the whole run (the quantifier is
\* greedy) when it has 80 dashes or more, and 0 for no match
SeparatorMatch(s, i) ==
    IF DashesAt(s, i, SeparatorMin) THEN DashRun(s, i) ELSE 0

RECURSIVE ReSplitFrom(_, _, _)
\* the blocks of s from index start on, appended to acc: the scan tries
\* every index in turn and resumes after a match
ReSplitFrom(s, start, acc) ==
    LET found == {i \in start..Len(s) : SeparatorMatch(s, i) > 0}
        i == Min(found)
    IN  IF found = {} THEN Append(acc, SubSeq(s, start, Len(s)))
        ELSE ReSplitFrom(s, i + SeparatorMatch(s, i),
                         Append(acc, SubSeq(s, start, i - 1)))

\* re.split(r"-{80,}", s): the text between the matches, found left to right
ReSplit(s) == ReSplitFrom(s, 1, <<>>)

-----------------------------------------------------------------------------
(* parse_employee_block: the Field Extractor.                              *)

\* the keys of `patterns`, in their order
Fields == <<"name", "department", "job_department", "job_type", "job_title",
            "job_rank", "annual_salary", "first_hired_date",
            "adj_service_date", "rank_start_date", "appt_start_date",
            "appt_end_date", "appt_percent">>

FieldSet == {Fields[i] : i \in 1..Len(Fields)}

\* the literal text each pattern starts with
Label(f) ==
    CASE f = "name" -> <<"N", "a", "m", "e", ":", " ">>
      [] f = "department" ->
            <<"H", "o", "m", "e", " ", "O", "r", "g", "n", ":", " ">>
      [] f = "job_department" ->
            <<"J", "o", "b", " ", "O", "r", "g", "n", ":", " ">>
      [] f = "job_type" ->
            <<"J", "o", "b", " ", "T", "y", "p", "e", ":", " ">>
      [] f = "job_title" ->
            <<"J", "o", "b", " ", "T", "i", "t", "l", "e", ":", " ">>
      [] f = "job_rank" -> <<"R", "a", "n", "k", ":", " ">>
      [] f = "annual_salary" ->
            <<"A", "n", "n", "u", "a", "l", " ", "S", "a", "l", "a", "r", "y",
              " ", "R", "a", "t", "e", ":">>
      [] f = "first_hired_date" ->
            <<"F", "i", "r", "s", "t", " ", "H", "i", "r", "e", "d", ":", " ">>
      [] f = "adj_service_date" ->
            <<"A", "d", "j", " ", "S", "e", "r", "v", "i", "c", "e", " ",
              "D", "a", "t", "e", ":", " ">>
      [] f = "rank_start_date" ->
            <<"R", "a", "n", "k", " ", "E", "f", "f", "e", "c", "t", "i", "v",
              "e", " ", "D", "a", "t", "e", ":", " ">>
      [] f = "appt_start_date" ->
            <<"A", "p", "p", "t", " ", "B", "e", "g", "i", "n", " ",
              "D", "a", "t", "e", ":", " ">>
      [] f = "appt_end_date" ->
            <<"A", "p", "p", "t", " ", "E", "n", "d", " ",
              "D", "a", "t", "e", ":", " ">>
      [] f = "appt_percent" ->
            <<"A", "p", "p", "t", " ", "P", "e", "r", "c", "e", "n", "t", ":",
              " ">>

\* the patterns that end in \n; the others end in \s{2,}
NewlineFields == {"job_type", "first_hired_date", "adj_service_date",
                  "rank_start_date", "appt_percent"}

\* the pattern with \s+ between its label and its group
SpaceRunFields == {"annual_salary"}

\* the pattern's terminator (\n, or \s{2,}) matches at index j
TermAt(s, f, j) ==
    IF f \in NewlineFields
    THEN j <= Len(s) /\ s[j] = "\n"
    ELSE j + 1 <= Len(s) /\ IsSpace(s[j]) /\ IsSpace(s[j + 1])

\* (.+?) from index g under re.DOTALL: one character or more, of any kind,
\* and as few as let the terminator match; the index of the group's last
\* character, 0 for no match
LazyGroupEnd(s, f, g) ==
    LET ends == {e \in g..Len(s) : TermAt(s, f, e + 1)}
    IN  IF g < 1 \/ ends = {} THEN 0 ELSE Min(ends)

\* number of whitespace characters of s from index p on
SpaceRun(s, p) ==
    LET stop == {j \in p..Len(s) : ~IsSpace(s[j])}
    IN  IF stop = {} THEN Len(s) - p + 1 ELSE Min(stop) - p

\* where the group starts when the label ends before index p: at p, or for
\* \s+ after the longest run of whitespace that still lets the rest match
\* (\s+ is greedy and backtracks); 0 for no match
GroupStart(s, f, p) ==
    IF f \notin SpaceRunFields THEN p
    ELSE LET ws == {w \in 1..SpaceRun(s, p) : LazyGroupEnd(s, f, p + w) # 0}
         IN  IF ws = {} THEN 0 ELSE p + Max(ws)

\* the pattern of f matches s from index i
MatchAt(s, f, i) ==
    /\ OccursAt(s, Label(f), i)
    /\ LazyGroupEnd(s, f, GroupStart(s, f, i + Len(Label(f)))) # 0

\* a mutant of the search: the last match instead of the first
ReSearchLast(s, f) ==
    LET starts == {i \in 1..Len(s) : MatchAt(s, f, i)}
    IN  IF starts = {} THEN 0 ELSE Max(starts)

\* re.search(pattern, block, re.DOTALL): the start of the leftmost match,
\* 0 for None
ReSearch(s, f) ==
    LET starts == {i \in 1..Len(s) : MatchAt(s, f, i)}
    IN  IF starts = {} THEN 0 ELSE Min(starts)

\* match.group(1) of the match that starts at index i
Group1(s, f, i) ==
    LET g == GroupStart(s, f, i + Len(Label(f)))
    IN  SubSeq(s, g, LazyGroupEnd(s, f, g))

\* match.group(1).strip() if match else None, for every key of patterns
parse_employee_block(b) ==
    [f \in FieldSet |->
        LET i == ReSearch(b, f)
        IN  IF i = 0 THEN NULL ELSE Strip(Group1(b, f, i))]

-----------------------------------------------------------------------------
(* make_pd_dataframe: the Record Typer / Enricher.  A DataFrame is a       *)
(* record of its column names and its rows, each row its index label and   *)
(* its cells.                                                              *)

\* pd.DataFrame(faculty_data): a row per record, labelled 0, 1, ...; the
\* columns are the keys of the records, so an empty list gives no column
DataFrame(data) ==
    [columns |-> IF data = <<>> THEN <<>> ELSE Fields,
     rows |-> [i \in 1..Len(data) |-> [index |-> i - 1, cells |-> data[i]]]]

\* a mutant of dropna(): how="all" drops a row only if every cell is missing
NoMissingCellAll(row) == \E c \in DOMAIN row.cells : row.cells[c] # NULL

NoMissingCell(row) == \A c \in DOMAIN row.cells : row.cells[c] # NULL

\* .dropna(): the rows without a missing cell, their labels kept
DropNa(df) == [df EXCEPT !.rows = SelectSeq(df.rows, NoMissingCell)]

\* the dtypes table
FloatFields == {"annual_salary", "appt_percent"}

DateFields == {"first_hired_date", "adj_service_date", "rank_start_date",
               "appt_start_date", "appt_end_date"}

DigitChars == <<"0", "1", "2", "3", "4", "5", "6", "7", "8", "9">>

IsDigits(s) ==
    s # <<>> /\ \A i \in 1..Len(s) : \E d \in 1..10 : DigitChars[d] = s[i]

DigitValue(c) == (CHOOSE d \in 1..10 : DigitChars[d] = c) - 1

RECURSIVE DecimalValue(_)
DecimalValue(s) ==
    IF s = <<>> THEN 0
    ELSE 10 * DecimalValue(SubSeq(s, 1, Len(s) - 1)) + DigitValue(s[Len(s)])

\* the text converts to a float (of float()'s literals the model has the
\* unsigned whole numbers)
IsFloatText(v) == IsDigits(Strip(v))

\* astype("float64") of one cell: a missing cell stays missing
ToFloat(v) == IF v = NULL THEN NULL ELSE <<"float", DecimalValue(Strip(v))>>

RECURSIVE SplitOn(_, _)
\* s.split(sep)
SplitOn(s, sep) ==
    LET found == {i \in 1..Len(s) : OccursAt(s, sep, i)}
        i == Min(found)
    IN  IF found = {} THEN <<s>>
        ELSE <<SubSeq(s, 1, i - 1)>>
                 \o SplitOn(SubSeq(s, i + Len(sep), Len(s)), sep)

LowerChars == <<"a", "b", "c", "d", "e", "f", "g", "h", "i", "j", "k", "l", "m",
                "n", "o", "p", "q", "r", "s", "t", "u", "v", "w", "x", "y", "z">>

UpperChars == <<"A", "B", "C", "D", "E", "F", "G", "H", "I", "J", "K", "L", "M",
                "N", "O", "P", "Q", "R", "S", "T", "U", "V", "W", "X", "Y", "Z">>

\* .str.upper(): a missing cell stays missing
Upper(v) ==
    IF v = NULL THEN NULL
    ELSE [i \in 1..Len(v) |->
            IF \E k \in 1..26 : LowerChars[k] = v[i]
            THEN UpperChars[CHOOSE k \in 1..26 : LowerChars[k] = v[i]]
            ELSE v[i]]

MonthNames == <<<<"J", "a", "n">>, <<"F", "e", "b">>, <<"M", "a", "r">>,
                <<"A", "p", "r">>, <<"M", "a", "y">>, <<"J", "u", "n">>,
                <<"J", "u", "l">>, <<"A", "u", "g">>, <<"S", "e", "p">>,
                <<"O", "c", "t">>, <<"N", "o", "v">>, <<"D", "e", "c">>>>

DaysInMonth(m, y) ==
    IF m = 2
    THEN IF (y % 4 = 0 /\ y % 100 # 0) \/ y % 400 = 0 THEN 29 ELSE 28
    ELSE IF m \in {4, 6, 9, 11} THEN 30 ELSE 31

\* the number of the month %b reads (in either case), 0 for no month
MonthOf(t) ==
    LET ms == {m \in 1..12 : Upper(MonthNames[m]) = Upper(t)}
    IN  IF ms = {} THEN 0 ELSE Min(ms)

\* pd.to_datetime(cell, format="%d-%b-%Y", errors="coerce"): the date of a
\* text of the form DD-Mon-YYYY (a day of one or two digits, a year of
\* four), and NaT for anything else
ToDatetime(v) ==
    LET parts == SplitOn(v, <<"-">>)
    IN  IF /\ v # NULL
           /\ Len(parts) = 3
           /\ IsDigits(parts[1]) /\ Len(parts[1]) <= 2
           /\ MonthOf(parts[2]) # 0
           /\ IsDigits(parts[3]) /\ Len(parts[3]) = 4
        THEN LET d == DecimalValue(parts[1])
                 m == MonthOf(parts[2])
                 y == DecimalValue(parts[3])
             IN  IF d >= 1 /\ d <= DaysInMonth(m, y) /\ y >= 1
                 THEN <<"date", y, m, d>> ELSE NULL
        ELSE NULL

\* one cell under the dtype of its column
Coerce(col, v) ==
    IF col \in DateFields THEN ToDatetime(v)
    ELSE IF col \in FloatFields THEN ToFloat(v)
    ELSE v

\* the exception of the loop over dtypes: KeyError for a column the frame
\* does not have, ValueError for a text astype("float64") cannot convert
CoerceError(df) ==
    IF df.columns = <<>> THEN "KeyError"
    ELSE IF \E i \in 1..Len(df.rows) : \E c \in FloatFields :
               df.rows[i].cells[c] # NULL /\ ~IsFloatText(df.rows[i].cells[c])
    THEN "ValueError"
    ELSE ""

\* lines 119-125
CoerceFrame(df) ==
    [df EXCEPT !.rows =
        [i \in 1..Len(df.rows) |->
            [df.rows[i] EXCEPT !.cells =
                [c \in DOMAIN df.rows[i].cells |-> Coerce(c, df.rows[i].cells[c])]]]]

\* a mutant of .str[1]: the last part of the split name
FirstNameLastPart(name) ==
    LET parts == SplitOn(name, <<",", " ">>)
    IN  IF Len(parts) < 2 THEN NULL
        ELSE SplitOn(parts[Len(parts)], <<" ">>)[1]

\* name.str.split(", ").str[1].str.split(" ").str[0]: NaN when the split
\* has no second part
FirstName(name) ==
    LET parts == SplitOn(name, <<",", " ">>)
    IN  IF Len(parts) < 2 THEN NULL ELSE SplitOn(parts[2], <<" ">>)[1]

\* the rows of the gender table whose key equals k (merge matches a missing
\* key with a missing key)
RowsKeyed(grows, k) ==
    LET hit == {j \in 1..Len(grows) : grows[j].first_name = k}
    IN  [n \in 1..Cardinality(hit) |->
            grows[CHOOSE j \in hit : Cardinality({h \in hit : h < j}) = n - 1]]

RECURSIVE MergeRows(_, _)
\* a left row for every row of the gender table with its first name, in the
\* table's order, and one with a missing gender if there is none
MergeRows(rows, grows) ==
    IF rows = <<>> THEN <<>>
    ELSE LET r == rows[1]
             m == RowsKeyed(grows, FirstName(r.cells["name"]))
             out == IF m = <<>>
                    THEN <<r.cells @@ ("estimated_gender" :> NULL)>>
                    ELSE [n \in 1..Len(m) |->
                            r.cells @@ ("estimated_gender" :> m[n].estimated_gender)]
         IN  out \o MergeRows(Tail(rows), grows)

\* lines 127-141: the left merge on first_name, which labels its rows anew
MergeGender(df, grows) ==
    LET merged == MergeRows(df.rows, grows)
    IN  [columns |-> Append(df.columns, "estimated_gender"),
         rows |-> [i \in 1..Len(merged) |-> [index |-> i - 1, cells |-> merged[i]]]]

\* lines 146-147: job_department mapped through the dictionary, NaN without
\* an entry, upper-cased
MapDept(df, map) ==
    [columns |-> Append(df.columns, "dept_class"),
     rows |-> [i \in 1..Len(df.rows) |->
        [df.rows[i] EXCEPT !.cells =
            @ @@ ("dept_class" :>
                    IF @["job_department"] \in DOMAIN map
                    THEN Upper(map[@["job_department"]])
                    ELSE NULL)]]]

\* line 117
StepDropNa ==
    /\ pc = "dropna"
    /\ faculty_df' = DropNa(DataFrame(faculty_data))
    /\ pc' = "coerce"
    /\ UNCHANGED <<salaries_txt, clean_salaries_txt, employee_blocks, block,
                   employee_data, faculty_data, gender_df, dept_class_map,
                   args, files, io_log, error>>

\* lines 119-125
StepCoerce ==
    /\ pc = "coerce"
    /\ IF CoerceError(faculty_df) # ""
       THEN /\ error' = CoerceError(faculty_df)
            /\ pc' = "raised"
            /\ UNCHANGED faculty_df
       ELSE /\ faculty_df' = CoerceFrame(faculty_df)
            /\ pc' = "gender"
            /\ UNCHANGED error
    /\ UNCHANGED <<salaries_txt, clean_salaries_txt, employee_blocks, block,
                   employee_data, faculty_data, gender_df, dept_class_map,
                   args, files, io_log>>

\* lines 127-141
StepGender ==
    /\ pc = "gender"
    /\ faculty_df' = IF gender_df.supplied
                     THEN MergeGender(faculty_df, gender_df.rows)
                     ELSE faculty_df
    /\ pc' = "dept"
    /\ UNCHANGED <<salaries_txt, clean_salaries_txt, employee_blocks, block,
                   employee_data, faculty_data, gender_df, dept_class_map,
                   args, files, io_log, error>>

\* lines 143-149
StepDept ==
    /\ pc = "dept"
    /\ faculty_df' = IF dept_class_map.supplied
                     THEN MapDept(faculty_df, dept_class_map.map)
                     ELSE faculty_df
    /\ pc' = "return"
    /\ UNCHANGED <<salaries_txt, clean_salaries_txt, employee_blocks, block,
                   employee_data, faculty_data, gender_df, dept_class_map,
                   args, files, io_log, error>>

NextFrame == StepDropNa \/ StepCoerce \/ StepGender \/ StepDept

-----------------------------------------------------------------------------
(* make_pd_dataframe on its own: the lists of records it is given.         *)

\* a record with every field present
FullRecord ==
    [name |-> <<"D", "o", "e", ",", " ", "J", "a", "n", "e">>,
     department |-> <<"B", "i", "o", "l", "o", "g", "y">>,
     job_department |-> <<"B", "I", "O", "L">>,
     job_type |-> <<"F">>,
     job_title |-> <<"P", "r", "o", "f">>,
     job_rank |-> <<"P", "r", "o", "f">>,
     annual_salary |-> <<"5", "0", "0", "0", "0">>,
     first_hired_date |-> <<"1", "5", "-", "J", "a", "n", "-", "2", "0", "2", "0">>,
     adj_service_date |-> <<"1", "5", "-", "J", "a", "n", "-", "2", "0", "2", "0">>,
     rank_start_date |-> <<"0", "5", "-", "M", "a", "r", "-", "1", "9", "9", "8">>,
     appt_start_date |-> <<"1", "6", "-", "S", "e", "p", "-", "2", "0", "2", "3">>,
     appt_end_date |-> <<"1", "5", "-", "J", "u", "n", "-", "2", "0", "2", "4">>,
     appt_percent |-> <<"1", "0", "0">>]

ListsOf(S, n) == UNION {[1..k -> S] : k \in 0..n}

\* FullRecord, FullRecord without one field (for each of the thirteen),
\* the record of an empty block, and records whose salary text or date text
\* does not convert
TableRecords ==
    {FullRecord, [f \in FieldSet |-> NULL]}
    \cup {[FullRecord EXCEPT ![f] = NULL] : f \in FieldSet}
    \cup {[FullRecord EXCEPT !["annual_salary"] = <<"n", "/", "a">>],
          [FullRecord EXCEPT !["appt_end_date"] =
              <<"n", "o", "t", "-", "a", "-", "d", "a", "t", "e">>],
          [FullRecord EXCEPT !["appt_end_date"] =
              <<"3", "0", "-", "F", "e", "b", "-", "2", "0", "2", "4">>]}

NotSupplied == [supplied |-> FALSE, rows |-> <<>>, map |-> <<>>]

\* no lookup is supplied
InitTable ==
    /\ pc = "dropna"
    /\ faculty_data \in ListsOf(TableRecords, MaxRecords)
    /\ gender_df = NotSupplied
    /\ dept_class_map = NotSupplied
    /\ faculty_df = NULL
    /\ salaries_txt = NULL
    /\ clean_salaries_txt = NULL
    /\ employee_blocks = NULL
    /\ block = NULL
    /\ employee_data = NULL
    /\ args = NULL
    /\ files = {}
    /\ io_log = <<>>
    /\ error = ""

SpecTable == InitTable /\ [][NextFrame]_vars

\* names with one separator, with two, with none, and with a tab
EnrichNames == {<<"D", "o", "e", ",", " ", "J", "a", "n", "e">>, <<"D", "o", "e", ",", " ", "J", "a", "n", "e", ",", " ", "J", "r">>, <<"D", "o", "e">>, <<"R", "o", "e", ",", " ", "A", "l", " ", "B", "o">>, <<"R", "o", "e", ",", " ", "J", "a", "n", "e", "\t", "Q", "u", "i", "n", "n">>}

EnrichRecords ==
    {[FullRecord EXCEPT !["name"] = n] : n \in EnrichNames}
    \cup {[FullRecord EXCEPT !["name"] = <<"R", "o", "e", ",", " ", "A", "l", " ", "B", "o">>,
                             !["job_department"] = <<"H", "I", "S", "T">>],
          [FullRecord EXCEPT !["job_rank"] = NULL]}

\* rows of the gender CSV, every one with a name: a first name listed twice
\* and another listed once
GenderRows ==
    {[first_name |-> <<"J", "a", "n", "e">>, estimated_gender |-> <<"F">>],
     [first_name |-> <<"J", "a", "n", "e">>, estimated_gender |-> <<"M">>],
     [first_name |-> <<"A", "l">>, estimated_gender |-> <<"M">>]}

DeptMaps ==
    {NotSupplied,
     [supplied |-> TRUE, rows |-> <<>>,
      map |-> (<<"B", "I", "O", "L">> :> <<"s", "t", "e", "m">>)]}

\* a gender table is supplied, a department map may be
InitEnrich ==
    /\ pc = "dropna"
    /\ faculty_data \in ListsOf(EnrichRecords, MaxEnrichRecords)
    /\ \E rows \in ListsOf(GenderRows, MaxGenderRows) :
          gender_df = [supplied |-> TRUE, rows |-> rows, map |-> <<>>]
    /\ dept_class_map \in DeptMaps
    /\ faculty_df = NULL
    /\ salaries_txt = NULL
    /\ clean_salaries_txt = NULL
    /\ employee_blocks = NULL
    /\ block = NULL
    /\ employee_data = NULL
    /\ args = NULL
    /\ files = {}
    /\ io_log = <<>>
    /\ error = ""

SpecEnrich == InitEnrich /\ [][NextFrame]_vars

-----------------------------------------------------------------------------
(* parse_salaries_data from the text on: the raw text is any concatenation *)
(* of at most MaxPieces pieces.                                            *)

Dashes(n) == [i \in 1..n |-> "-"]

TextPieces == {<<"x">>, <<" ">>, <<"\n">>, <<"\r">>, <<"-">>, Marker,
               Dashes(SeparatorMin), Dashes(SeparatorMin - 1)}

TextsOf(pieces, n) == {Flatten(ps) : ps \in UNION {[1..k -> pieces] : k \in 0..n}}

InitText ==
    /\ pc = "normalize"
    /\ salaries_txt \in TextsOf(TextPieces, MaxPieces)
    /\ clean_salaries_txt = NULL
    /\ employee_blocks = NULL
    /\ block = NULL
    /\ employee_data = NULL
    /\ faculty_data = NULL
    /\ gender_df = NULL
    /\ dept_class_map = NULL
    /\ faculty_df = NULL
    /\ args = NULL
    /\ files = {}
    /\ io_log = <<>>
    /\ error = ""

\* lines 38-44
Normalize ==
    /\ pc = "normalize"
    /\ clean_salaries_txt' = CleanText(salaries_txt)
    /\ pc' = "split"
    /\ UNCHANGED <<salaries_txt, employee_blocks, block, employee_data,
                   faculty_data, gender_df, dept_class_map, faculty_df, args,
                   files, io_log, error>>

\* line 45
Split ==
    /\ pc = "split"
    /\ employee_blocks' = ReSplit(clean_salaries_txt)
    /\ pc' = "extract"
    /\ UNCHANGED <<salaries_txt, clean_salaries_txt, block, employee_data,
                   faculty_data, gender_df, dept_class_map, faculty_df, args,
                   files, io_log, error>>

\* line 47
Extract ==
    /\ pc = "extract"
    /\ faculty_data' = [i \in 1..Len(employee_blocks) |->
                            parse_employee_block(employee_blocks[i])]
    /\ pc' = "returned"
    /\ UNCHANGED <<salaries_txt, clean_salaries_txt, employee_blocks, block,
                   employee_data, gender_df, dept_class_map, faculty_df, args,
                   files, io_log, error>>

NextText == Normalize \/ Split \/ Extract

SpecText == InitText /\ [][NextText]_vars

-----------------------------------------------------------------------------
(* parse_employee_block on its own: the block is any concatenation of at   *)
(* most MaxBlockPieces pieces, one of them the label of a field.           *)

BlockPieces(f) == {Label(f), <<"x">>, <<" ">>, <<" ", " ">>, <<"\n">>}

InitBlock ==
    /\ pc = "parse_employee_block"
    /\ \E f \in FieldSet : block \in TextsOf(BlockPieces(f), MaxBlockPieces)
    /\ employee_data = NULL
    /\ salaries_txt = NULL
    /\ clean_salaries_txt = NULL
    /\ employee_blocks = NULL
    /\ faculty_data = NULL
    /\ gender_df = NULL
    /\ dept_class_map = NULL
    /\ faculty_df = NULL
    /\ args = NULL
    /\ files = {}
    /\ io_log = <<>>
    /\ error = ""

\* lines 61-82
ParseEmployeeBlock ==
    /\ pc = "parse_employee_block"
    /\ employee_data' = parse_employee_block(block)
    /\ pc' = "parsed"
    /\ UNCHANGED <<salaries_txt, clean_salaries_txt, employee_blocks, block,
                   faculty_data, gender_df, dept_class_map, faculty_df, args,
                   files, io_log, error>>

NextBlock == ParseEmployeeBlock

SpecBlock == InitBlock /\ [][NextBlock]_vars

-----------------------------------------------------------------------------
(* main and the head of parse_salaries_data: the files read and written.   *)
(* The contents of the files are left out; a step that reads or writes a   *)
(* file, or converts data, either succeeds or raises.                      *)

\* bool(v) of an optional string
Truthy(v) == v # NULL /\ v # <<>>

\* Path(p).suffix: the final component from its last dot on, unless the dot
\* is its first or its last character
Suffix(p) ==
    LET slashes == {i \in 1..Len(p) : p[i] = "/"}
        name == IF slashes = {} THEN p ELSE SubSeq(p, Max(slashes) + 1, Len(p))
        dots == {i \in 1..Len(name) : name[i] = "."}
    IN  IF dots = {} \/ Max(dots) = 1 \/ Max(dots) = Len(name) THEN <<>>
        ELSE SubSeq(name, Max(dots), Len(name))

\* the paths main takes without --input_data
DefaultSalariesTxt ==
    <<".", ".", "/", "d", "a", "t", "a", "/", "s", "a", "l", "a",
      "r", "i", "e", "s", ".", "t", "x", "t">>

DefaultGenderCsv ==
    <<".", ".", "/", "d", "a", "t", "a", "/", "n", "a", "m", "e",
      "s", "_", "g", "e", "n", "d", "e", "r", "s", "_", "U", "S",
      "A", ".", "c", "s", "v">>

DefaultDeptsJson ==
    <<".", ".", "/", "d", "a", "t", "a", "/", "d", "e", "p", "t",
      "s", ".", "j", "s", "o", "n">>

ConfigError ==
    "ValueError: Either an input .pdf and output .txt, or an input .txt must be provided"

\* a mutant of the first test: the output path is not looked at
PdfBranchAnyOutput(in_data, out_txt) == Suffix(in_data) = <<".", "p", "d", "f">>

\* `in_data.suffix == ".pdf" and out_txt`
PdfBranch(in_data, out_txt) ==
    Suffix(in_data) = <<".", "p", "d", "f">> /\ Truthy(out_txt)

\* `in_data.suffix == ".txt"`
TxtBranch(in_data) == Suffix(in_data) = <<".", "t", "x", "t">>

InputPaths == {NULL, <<"s", ".", "t", "x", "t">>, <<"s", ".", "p", "d", "f">>, <<"s", ".", "P", "D", "F">>, <<"d", ".", "p", "d", "f", "/", "s">>, <<".", "t", "x", "t">>}

OutputPaths == {NULL, <<>>, <<"o", ".", "t", "x", "t">>}

InitMain ==
    /\ pc = "main"
    /\ \E i \in InputPaths, o \in OutputPaths,
          g \in {NULL, <<"g", ".", "c", "s", "v">>}, d \in {NULL, <<"d", ".", "j", "s", "o", "n">>} :
          args = [input_data |-> i, output_txt |-> o, gender_csv |-> g,
                  dept_class_json |-> d, in_data |-> NULL, out_txt |-> NULL,
                  estimated_gender_csv |-> NULL,
                  department_class_map_json |-> NULL]
    /\ files = {}
    /\ io_log = <<>>
    /\ error = ""
    /\ salaries_txt = NULL
    /\ clean_salaries_txt = NULL
    /\ employee_blocks = NULL
    /\ block = NULL
    /\ employee_data = NULL
    /\ faculty_data = NULL
    /\ gender_df = NULL
    /\ dept_class_map = NULL
    /\ faculty_df = NULL

\* the variables main's steps leave alone, but for the ones each step names
MainFrame == <<clean_salaries_txt, employee_blocks, block, employee_data,
               gender_df, dept_class_map>>

\* a step raises: the run ends with the exception
Raise(msg) == pc' = "failed" /\ error' = msg

\* a write that raises leaves no file, or a part of it
WriteFails(name) ==
    \/ files' = files
    \/ files' = {f \in files : f.file # name}
                    \cup {[file |-> name, complete |-> FALSE]}

WriteDone(name) ==
    files' = {f \in files : f.file # name} \cup {[file |-> name, complete |-> TRUE]}

\* lines 183-194
MainArgs ==
    /\ pc = "main"
    /\ args' = IF Truthy(args.input_data)
               THEN [args EXCEPT !.in_data = args.input_data,
                                 !.out_txt = args.output_txt,
                                 !.estimated_gender_csv = args.gender_csv,
                                 !.department_class_map_json = args.dept_class_json]
               ELSE [args EXCEPT !.in_data = DefaultSalariesTxt,
                                 !.out_txt = DefaultSalariesTxt,
                                 !.estimated_gender_csv = DefaultGenderCsv,
                                 !.department_class_map_json = DefaultDeptsJson]
    /\ pc' = "parse_salaries_data"
    /\ UNCHANGED <<salaries_txt, faculty_data, faculty_df, files, io_log, error>>
    /\ UNCHANGED MainFrame

\* lines 27-36: the three branches
ChooseInput ==
    /\ pc = "parse_salaries_data"
    /\ IF PdfBranch(args.in_data, args.out_txt)
       THEN pc' = "extract_text" /\ UNCHANGED error
       ELSE IF TxtBranch(args.in_data)
       THEN pc' = "read_text" /\ UNCHANGED error
       ELSE Raise(ConfigError)
    /\ UNCHANGED <<salaries_txt, faculty_data, faculty_df, args, files, io_log>>
    /\ UNCHANGED MainFrame

\* line 29
ExtractText ==
    /\ pc = "extract_text"
    /\ io_log' = Append(io_log, <<"read", "in_data">>)
    /\ \/ /\ salaries_txt' = <<"text">>
          /\ pc' = "write_text"
          /\ UNCHANGED error
       \/ /\ Raise("extract_text failed")
          /\ UNCHANGED salaries_txt
    /\ UNCHANGED <<faculty_data, faculty_df, args, files>>
    /\ UNCHANGED MainFrame

\* line 30
WriteText ==
    /\ pc = "write_text"
    /\ io_log' = Append(io_log, <<"write", "out_txt">>)
    /\ \/ /\ WriteDone("out_txt")
          /\ pc' = "parse"
          /\ UNCHANGED error
       \/ /\ WriteFails("out_txt")
          /\ Raise("OSError: write_text")
    /\ UNCHANGED <<salaries_txt, faculty_data, faculty_df, args>>
    /\ UNCHANGED MainFrame

\* line 32
ReadText ==
    /\ pc = "read_text"
    /\ io_log' = Append(io_log, <<"read", "in_data">>)
    /\ \/ /\ salaries_txt' = <<"text">>
          /\ pc' = "parse"
          /\ UNCHANGED error
       \/ /\ Raise("OSError: read_text")
          /\ UNCHANGED salaries_txt
    /\ UNCHANGED <<faculty_data, faculty_df, args, files>>
    /\ UNCHANGED MainFrame

\* lines 38-47: no file is touched
ParseText ==
    /\ pc = "parse"
    /\ faculty_data' = <<"records">>
    /\ pc' = "make_pd_dataframe"
    /\ UNCHANGED <<salaries_txt, faculty_df, args, files, io_log, error>>
    /\ UNCHANGED MainFrame

\* lines 117-125: the conversion raises for a list without records (KeyError)
\* and for a number text that does not convert (ValueError)
TypeRecords ==
    /\ pc = "make_pd_dataframe"
    /\ \/ /\ faculty_df' = <<"table">>
          /\ pc' = "read_csv"
          /\ UNCHANGED error
       \/ /\ Raise("KeyError: 'name'")
          /\ UNCHANGED faculty_df
       \/ /\ Raise("ValueError: could not convert string to float")
          /\ UNCHANGED faculty_df
    /\ UNCHANGED <<salaries_txt, faculty_data, args, files, io_log>>
    /\ UNCHANGED MainFrame

\* lines 127-141
ReadGenderCsv ==
    /\ pc = "read_csv"
    /\ IF Truthy(args.estimated_gender_csv)
       THEN /\ io_log' = Append(io_log, <<"read", "estimated_gender_csv">>)
            /\ \/ pc' = "json_load" /\ UNCHANGED error
               \/ Raise("read_csv failed")
       ELSE /\ pc' = "json_load"
            /\ UNCHANGED <<io_log, error>>
    /\ UNCHANGED <<salaries_txt, faculty_data, faculty_df, args, files>>
    /\ UNCHANGED MainFrame

\* lines 143-149
LoadDeptJson ==
    /\ pc = "json_load"
    /\ IF Truthy(args.department_class_map_json)
       THEN /\ io_log' = Append(io_log, <<"read", "department_class_map_json">>)
            /\ \/ pc' = "to_csv" /\ UNCHANGED error
               \/ Raise("json.load failed")
       ELSE /\ pc' = "to_csv"
            /\ UNCHANGED <<io_log, error>>
    /\ UNCHANGED <<salaries_txt, faculty_data, faculty_df, args, files>>
    /\ UNCHANGED MainFrame

\* line 202
ToCsv ==
    /\ pc = "to_csv"
    /\ io_log' = Append(io_log, <<"write", "csv">>)
    /\ \/ /\ WriteDone("csv")
          /\ pc' = "to_feather"
          /\ UNCHANGED error
       \/ /\ WriteFails("csv")
          /\ Raise("OSError: to_csv")
    /\ UNCHANGED <<salaries_txt, faculty_data, faculty_df, args>>
    /\ UNCHANGED MainFrame

\* line 203
ToFeather ==
    /\ pc = "to_feather"
    /\ io_log' = Append(io_log, <<"write", "feather">>)
    /\ \/ /\ WriteDone("feather")
          /\ pc' = "done"
          /\ UNCHANGED error
       \/ /\ WriteFails("feather")
          /\ Raise("to_feather failed")
    /\ UNCHANGED <<salaries_txt, faculty_data, faculty_df, args>>
    /\ UNCHANGED MainFrame

NextMain ==
    \/ MainArgs \/ ChooseInput \/ ExtractText \/ WriteText \/ ReadText
    \/ ParseText \/ TypeRecords \/ ReadGenderCsv \/ LoadDeptJson
    \/ ToCsv \/ ToFeather

SpecMain == InitMain /\ [][NextMain]_vars

-----------------------------------------------------------------------------
(* Claims about the Text Normalizer and the Block Splitter.                *)

\* a line is blank when every character of it is whitespace
BlankLine(line) == \A i \in 1..Len(line) : line[i] \in {" ", "\t", "\n", "\r", "\f"}

\* the boilerplate marker lies somewhere in the line
HasMarker(line) ==
    \E i \in 1..Len(line) :
        i + Len(Marker) - 1 <= Len(line) /\ SubSeq(line, i, i + Len(Marker) - 1) = Marker

SurvivingLine(line) == ~BlankLine(line) /\ ~HasMarker(line)

Normalized == pc \in {"split", "extract", "returned"}

\* C5: the normalized text consists of exactly the lines of the raw text that
\* are not blank after trimming and do not contain "Unclassified Personnel
\* List", in their order and unaltered; the empty text gives the empty text.
C5_NormalizerKeepsExactlySurvivingLines ==
    Normalized =>
        /\ SplitLines(clean_salaries_txt)
             = SelectSeq(SplitLines(salaries_txt), SurvivingLine)
        /\ salaries_txt = <<>> => clean_salaries_txt = <<>>

\* a line that holds the marker among other text was dropped, and another
\* line survived
C5_Witness ==
    /\ Normalized
    /\ \E i \in 1..Len(SplitLines(salaries_txt)) :
          LET line == SplitLines(salaries_txt)[i]
          IN  HasMarker(line) /\ line # Marker
    /\ clean_salaries_txt # <<>>

\* the indices where a maximal run of dashes starts
RunStarts(t) == {i \in 1..Len(t) : t[i] = "-" /\ (i = 1 \/ t[i - 1] # "-")}

\* the last index of the maximal run of dashes that starts at i
RunEnd(t, i) == Min({j \in i..Len(t) : j = Len(t) \/ t[j + 1] # "-"})

\* the starts of the maximal runs of 80 dashes or more
SeparatorRuns(t) == {i \in RunStarts(t) : RunEnd(t, i) - i + 1 >= 80}

\* the start of the k-th separator run, Len(t) + 1 after the last
NthRunStart(t, k) ==
    IF k > Cardinality(SeparatorRuns(t)) THEN Len(t) + 1
    ELSE CHOOSE i \in SeparatorRuns(t) :
             Cardinality({j \in SeparatorRuns(t) : j < i}) = k - 1

\* the index after the k-th separator run, 1 for k = 0
AfterNthRun(t, k) == IF k = 0 THEN 1 ELSE RunEnd(t, NthRunStart(t, k)) + 1

Splitted == pc \in {"extract", "returned"}

\* C4: a normalized text with N maximal runs of 80 dashes or more is split
\* into N + 1 blocks, the k-th of them the text between the (k-1)-th and the
\* k-th run (so no block holds a character of a run, and blocks and runs
\* interleaved give the text back); without a run the one block is the text.
C4_SplitYieldsTextBetweenRuns ==
    Splitted =>
        LET t == clean_salaries_txt
            n == Cardinality(SeparatorRuns(t))
        IN  /\ Len(employee_blocks) = n + 1
            /\ \A k \in 1..(n + 1) :
                  employee_blocks[k]
                    = SubSeq(t, AfterNthRun(t, k - 1), NthRunStart(t, k) - 1)
            /\ n = 0 => employee_blocks = <<t>>

\* a text with a run of 79 dashes and a run of more than 80 was split in two,
\* at the long run only
C4_Witness ==
    /\ Splitted
    /\ \E i \in RunStarts(clean_salaries_txt) :
          RunEnd(clean_salaries_txt, i) - i + 1 = 79
    /\ \E i \in RunStarts(clean_salaries_txt) :
          RunEnd(clean_salaries_txt, i) - i + 1 > 80
    /\ Len(employee_blocks) = 2

\* a text with two separator runs was split in three
C4_WitnessTwoRuns ==
    /\ Splitted
    /\ Cardinality(SeparatorRuns(clean_salaries_txt)) = 2
    /\ Len(employee_blocks) = 3

-----------------------------------------------------------------------------
(* Claims about the Field Extractor.                                       *)

Parsed == pc = "parsed"

\* a value of the mapping is None, or a string that is not empty and has no
\* whitespace at either end
TrimmedOrAbsent(v) ==
    \/ v = NULL
    \/ /\ v # <<>>
       /\ v[1] \notin {" ", "\t", "\n", "\r", "\f"}
       /\ v[Len(v)] \notin {" ", "\t", "\n", "\r", "\f"}

\* C2: the mapping parse_employee_block returns has exactly the thirteen
\* field keys, and every value is None or a non-empty string without leading
\* or trailing whitespace: never the empty string.
C2_ValuesTrimmedNeverEmpty ==
    Parsed =>
        /\ DOMAIN employee_data = FieldSet
        /\ \A f \in FieldSet : TrimmedOrAbsent(employee_data[f])

\* the label of f (with the whitespace the pattern of annual_salary takes
\* after its colon) occurs in b at index i
LabelOccursAt(b, f, i) ==
    /\ i + Len(Label(f)) - 1 <= Len(b)
    /\ SubSeq(b, i, i + Len(Label(f)) - 1) = Label(f)
    /\ f = "annual_salary" =>
          /\ i + Len(Label(f)) <= Len(b)
          /\ b[i + Len(Label(f))] \in {" ", "\t", "\n", "\r", "\f"}

LabelOccurrences(b, f) == {i \in 1..Len(b) : LabelOccursAt(b, f, i)}

\* the index after the first occurrence of the label of f, the whitespace
\* after the colon of annual_salary included
AfterFirstLabel(b, f) ==
    LET p == Min(LabelOccurrences(b, f)) + Len(Label(f))
        text == {j \in p..Len(b) : b[j] \notin {" ", "\t", "\n", "\r", "\f"}}
    IN  IF f # "annual_salary" THEN p
        ELSE IF text = {} THEN Len(b) + 1 ELSE Min(text)

\* the indices from p on where the terminator of f starts: a line break, or
\* two whitespace characters
TerminatorsFrom(b, f, p) ==
    IF f \in {"job_type", "first_hired_date", "adj_service_date",
              "rank_start_date", "appt_percent"}
    THEN {j \in p..Len(b) : b[j] = "\n"}
    ELSE {j \in p..(Len(b) - 1) :
             /\ b[j] \in {" ", "\t", "\n", "\r", "\f"}
             /\ b[j + 1] \in {" ", "\t", "\n", "\r", "\f"}}

\* C3: for every field whose label occurs in the block and that has a value,
\* the value is the trimmed text between the end of the label and the first occurrence after
\* the label of the field's terminator (the first line break for job_type,
\* first_hired_date, adj_service_date, rank_start_date and appt_percent, the
\* first run of two or more whitespace characters for the others), so that a
\* newline-terminated value never holds text of a later line.
C3_ValueStopsAtFirstTerminator ==
    Parsed =>
        \A f \in FieldSet :
            LabelOccurrences(block, f) # {} /\ employee_data[f] # NULL =>
                LET p == AfterFirstLabel(block, f)
                    ts == TerminatorsFrom(block, f, p)
                IN  ts # {} =>
                        employee_data[f] = Strip(SubSeq(block, p, Min(ts) - 1))

\* C6: when the label of a field occurs more than once in the block, the
\* value is the one the pattern captures at the first occurrence of the
\* label, and None when the pattern does not match there.
C6_FirstLabelOccurrenceWins ==
    Parsed =>
        \A f \in FieldSet :
            Cardinality(LabelOccurrences(block, f)) > 1 =>
                LET first == Min(LabelOccurrences(block, f))
                IN  employee_data[f] =
                        IF MatchAt(block, f, first)
                        THEN Strip(Group1(block, f, first))
                        ELSE NULL

\* a label occurs twice, the pattern matches at both occurrences, and the
\* value is the one captured at the first
C6_Witness ==
    /\ Parsed
    /\ \E f \in FieldSet :
          /\ Cardinality(LabelOccurrences(block, f)) > 1
          /\ \A i \in LabelOccurrences(block, f) : MatchAt(block, f, i)
          /\ employee_data[f] # NULL
          /\ employee_data[f] #
                Strip(Group1(block, f, Max(LabelOccurrences(block, f))))

-----------------------------------------------------------------------------
(* Claims about the Record Typer / Enricher.                               *)

\* the record has all of its thirteen fields
HasAllFields(rec) == \A f \in FieldSet : rec[f] # <<"<None>">>

\* the positions (from 0) of the records of the list that have all fields
CompletePositions(data) == {i \in 0..(Len(data) - 1) : HasAllFields(data[i + 1])}

\* C1: without lookups, the table has a row for a record if and only if no
\* field of the record is absent, and the rows are in the order of the list;
\* a record with exactly one absent field has no row.
C1_RowIffNoFieldAbsent ==
    pc = "return" =>
        /\ {faculty_df.rows[k].index : k \in 1..Len(faculty_df.rows)}
             = CompletePositions(faculty_data)
        /\ \A k \in 1..Len(faculty_df.rows) :
              /\ \A j \in 1..(k - 1) :
                    faculty_df.rows[j].index < faculty_df.rows[k].index
              /\ faculty_df.rows[k].cells["name"]
                   = faculty_data[faculty_df.rows[k].index + 1]["name"]

\* a record with exactly one absent field was given before a complete one,
\* and the table has the one row
C1_Witness ==
    /\ pc = "return"
    /\ Len(faculty_data) = 2
    /\ Cardinality({f \in FieldSet : faculty_data[1][f] = <<"<None>">>}) = 1
    /\ Len(faculty_df.rows) = 1
    /\ faculty_df.rows[1].index = 1

\* the text of the name between its first ", " and the next one (or its
\* end), cut at the first space; None without a ", "
FirstNameOf(name) ==
    LET seps == {i \in 1..(Len(name) - 1) : name[i] = "," /\ name[i + 1] = " "}
        a == Min(seps) + 2
        later == {i \in seps : i >= a}
        b == IF later = {} THEN Len(name) + 1 ELSE Min(later)
        spaces == {i \in a..(b - 1) : name[i] = " "}
    IN  IF seps = {} THEN <<"<None>">>
        ELSE SubSeq(name, a, (IF spaces = {} THEN b ELSE Min(spaces)) - 1)

\* the first whitespace-delimited token of all that follows the first ", "
\* of the name; None without a ", " or without a token
FirstTokenOfRemainder(name) ==
    LET seps == {i \in 1..(Len(name) - 1) : name[i] = "," /\ name[i + 1] = " "}
        a == Min(seps) + 2
        text == {i \in a..Len(name) : name[i] \notin {" ", "\t", "\n", "\r", "\f"}}
        gaps == {i \in Min(text)..Len(name) : name[i] \in {" ", "\t", "\n", "\r", "\f"}}
    IN  IF seps = {} THEN <<"<None>">>
        ELSE IF text = {} THEN <<"<None>">>
        ELSE SubSeq(name, Min(text), (IF gaps = {} THEN Len(name) + 1 ELSE Min(gaps)) - 1)

\* the genders the table lists for the key k
GendersListed(k) ==
    {gender_df.rows[j].estimated_gender :
        j \in {i \in 1..Len(gender_df.rows) : gender_df.rows[i].first_name = k}}

Merged == pc \in {"dept", "return"} /\ gender_df.supplied

NthComplete(data, k) ==
    data[1 + CHOOSE i \in CompletePositions(data) :
                Cardinality({j \in CompletePositions(data) : j < i}) = k - 1]

\* C10: with the lookups supplied, the table has exactly one row per record
\* that has all fields, in the order of the list, and the thirteen base
\* cells of each row are those of the typed record.
C10_OneRowPerRecordBaseCellsKept ==
    pc = "return" =>
        /\ Len(faculty_df.rows) = Cardinality(CompletePositions(faculty_data))
        /\ \A k \in 1..Len(faculty_df.rows) : \A f \in FieldSet :
              faculty_df.rows[k].cells[f]
                = Coerce(f, NthComplete(faculty_data, k)[f])

-----------------------------------------------------------------------------
(* Claims about main and parse_salaries_data.                              *)

\* the output files of the run that exist, whole or in part
OutputsLeft == {f \in files : f.file \in {"csv", "feather"}}

\* C8: when a step of main fails, no output file of the run exists at the
\* end, whole or partial; after a successful run both the CSV and the
\* columnar file exist.
C8_NoOutputAfterFailure ==
    /\ pc = "failed" => OutputsLeft = {}
    /\ pc = "done" =>
          OutputsLeft = {[file |-> "csv", complete |-> TRUE],
                         [file |-> "feather", complete |-> TRUE]}

\* the final component of the path ends in the four characters ext, which
\* are not all of it
EndsIn(path, ext) ==
    /\ path # <<"<None>">>
    /\ Len(path) > 4
    /\ SubSeq(path, Len(path) - 3, Len(path)) = ext
    /\ path[Len(path) - 4] # "/"

\* the input is a .txt path, or a .pdf path with an output text path
ValidInput ==
    \/ EndsIn(args.in_data, <<".", "t", "x", "t">>)
    \/ /\ EndsIn(args.in_data, <<".", "p", "d", "f">>)
       /\ args.out_txt # <<"<None>">>
       /\ args.out_txt # <<>>

Entered == pc \notin {"main", "parse_salaries_data"}

\* C9: parse_salaries_data raises its ValueError exactly when the input is
\* neither a .txt path nor a .pdf path with an output text path, before any
\* file is read or written and before any parsing; for a .txt input the
\* output text path is never written.
C9_ConfigErrorBeforeAnyIO ==
    /\ Entered /\ ~ValidInput => error = ConfigError
    /\ error = ConfigError =>
          /\ ~ValidInput
          /\ io_log = <<>>
          /\ files = {}
          /\ salaries_txt = <<"<None>">>
          /\ faculty_data = <<"<None>">>
    /\ Entered /\ EndsIn(args.in_data, <<".", "t", "x", "t">>) =>
          \A k \in 1..Len(io_log) : io_log[k] # <<"write", "out_txt">>

\* a .pdf input without an output path raised the ValueError
C9_Witness ==
    /\ error = ConfigError
    /\ EndsIn(args.in_data, <<".", "p", "d", "f">>)
    /\ args.out_txt = <<"<None>">>

\* a .txt input given with an output path was read to the end of the run
C9_WitnessTxt ==
    /\ pc = "done"
    /\ EndsIn(args.in_data, <<".", "t", "x", "t">>)
    /\ args.out_txt = <<"o", ".", "t", "x", "t">>

=============================================================================
